---- MODULE Spec2Model ----
(***************************************************************************)
(* Model of the RAG foundations service: the FAISS-backed vector store     *)
(* (rag_basic/faiss_store.py), the embedder fixture, and the /embed,       *)
(* /search and /answer handlers of app/main.py running on one asyncio      *)
(* event loop.                                                             *)
(*                                                                         *)
(* Document ids are 0-based in the program; a TLA+ sequence is 1-based, so *)
(* the entry of id i is found at position i + 1.                           *)
(***************************************************************************)
EXTENDS Integers, Sequences, FiniteSets, TLC

\* ------------------------------------------------------------------------
\* Bounds
\* ------------------------------------------------------------------------
MaxDocs == 3      \* an ingest is only started while the store holds fewer documents
MaxBatch == 2     \* longest list of texts given to one ingest
MaxK == 4         \* largest k / top_k of a search
NTasks == 2       \* callers: each has at most one request or call in progress
MaxCtx == 2       \* longest context and search_results lists of an /answer request
Dim == 2          \* the `dimension` the store is constructed with (384 in the app)
MaxFileDocs == 2  \* most vectors / documents in the files found at construction

\* ------------------------------------------------------------------------
\* Program constants
\* ------------------------------------------------------------------------
Scale == 100      \* fixed-point unit standing for float32: 1.0 is Scale

TaskIds == 1..NTasks
Texts == {"A", "B"}

Min(a, b) == IF a <= b THEN a ELSE b

\* ------------------------------------------------------------------------
\* Sequences
\* ------------------------------------------------------------------------
SeqsUpTo(S, n) == UNION {[1..m -> S] : m \in 0..n}

\* ------------------------------------------------------------------------
\* Embedder (opaque model; a fixed text -> vector table stands for it)
\* ------------------------------------------------------------------------
EmbedOne(text) ==
    [i \in 1..Dim |-> IF i = 1 THEN (IF text = "A" THEN 3 ELSE 4)
                      ELSE IF i = 2 THEN (IF text = "A" THEN 4 ELSE 3)
                      ELSE 0]

\* embed_texts: one vector per text, in input order; [] for []
EmbedTexts(texts) == [i \in 1..Len(texts) |-> EmbedOne(texts[i])]

\* ------------------------------------------------------------------------
\* Vector arithmetic (numpy), in fixed point
\* ------------------------------------------------------------------------
RECURSIVE SumSq(_, _)
SumSq(v, n) == IF n = 0 THEN 0 ELSE v[n] * v[n] + SumSq(v, n - 1)

\* floor of the square root, by bisection: lo * lo <= n < hi * hi
RECURSIVE Bisect(_, _, _)
Bisect(n, lo, hi) ==
    IF hi - lo <= 1 THEN lo
    ELSE LET mid == (lo + hi) \div 2
         IN IF mid * mid <= n THEN Bisect(n, mid, hi) ELSE Bisect(n, lo, mid)

\* 46340 is the largest integer whose square fits a 32-bit integer
ISqrt(n) == Bisect(n, 0, Min(n, 46339) + 1)

\* np.linalg.norm(v), in units of 1/Scale
Norm(v) == ISqrt(SumSq(v, Len(v)) * Scale * Scale)

\* division rounding toward zero
TruncDiv(a, b) == IF a >= 0 THEN a \div b ELSE -((-a) \div b)

\* Normalize without the division: the embedding is stored as given
NormalizeUnscaled(v) == [i \in 1..Len(v) |-> v[i] * Scale]

\* emb / norm if norm > 0 else emb, as a float32 vector in units of 1/Scale
Normalize(v) ==
    IF Norm(v) > 0
    THEN [i \in 1..Len(v) |-> TruncDiv(v[i] * Scale * Scale, Norm(v))]
    ELSE [i \in 1..Len(v) |-> v[i] * Scale]

RECURSIVE Dot(_, _, _)
Dot(u, v, n) == IF n = 0 THEN 0 ELSE u[n] * v[n] + Dot(u, v, n - 1)

\* inner product of two stored-format vectors (units of 1/Scale^2)
InnerProduct(u, v) == Dot(u, v, Len(u))

\* ------------------------------------------------------------------------
\* faiss.IndexFlatIP and its file
\* ------------------------------------------------------------------------
\* an index is [d |-> dimension, xb |-> the stored vectors in insertion order]
NewIndexFlatIP(d) == [d |-> d, xb |-> <<>>]

NTotal(idx) == Len(idx.xb)

\* Flatten writing the floats component after component
FlattenColumnMajor(xb, d) ==
    [p \in 1..(Len(xb) * d) |-> xb[((p - 1) % Len(xb)) + 1][((p - 1) \div Len(xb)) + 1]]

\* the n * d floats of the index, vector after vector
Flatten(xb, d) ==
    [p \in 1..(Len(xb) * d) |-> xb[((p - 1) \div d) + 1][((p - 1) % d) + 1]]

NoIndexFile == [st |-> "absent", d |-> 0, ntotal |-> 0, codes |-> <<>>]
CorruptIndexFile == [st |-> "corrupt", d |-> 0, ntotal |-> 0, codes |-> <<>>]

\* faiss.write_index: header (d, ntotal) followed by the flat float array
WriteIndex(idx) ==
    [st |-> "ok", d |-> idx.d, ntotal |-> NTotal(idx), codes |-> Flatten(idx.xb, idx.d)]

\* faiss.read_index of a readable file
ReadIndex(f) ==
    [d |-> f.d,
     xb |-> [i \in 1..f.ntotal |-> [j \in 1..f.d |-> f.codes[(i - 1) * f.d + j]]]]

\* ------------------------------------------------------------------------
\* pickle file: a dict serialised as its list of (key, value) items
\* ------------------------------------------------------------------------
NoPickleFile == [st |-> "absent", keys |-> <<>>, vals |-> <<>>]
CorruptPickleFile == [st |-> "corrupt", keys |-> <<>>, vals |-> <<>>]

\* pickle.dump({'documents': documents, 'metadata': metadata}, f)
PickleDump(docs, meta) ==
    [st |-> "ok", keys |-> <<"documents", "metadata">>, vals |-> <<docs, meta>>]

\* data.get(key, []) on the dict read back by pickle.load
DictGet(f, key) ==
    IF \E i \in DOMAIN f.keys : f.keys[i] = key
    THEN f.vals[CHOOSE i \in DOMAIN f.keys : f.keys[i] = key]
    ELSE <<>>

\* ------------------------------------------------------------------------
\* FAISSVectorStore: construction
\* ------------------------------------------------------------------------
\* _create_new_index that replaces the index and forgets the two lists
CreateNewIndexKeepsLists(self, dimension) ==
    [self EXCEPT !.index = NewIndexFlatIP(dimension)]

\* _create_new_index on the store self: a new empty index of the configured
\* dimension, documents and metadata reset to []
CreateNewIndex(self, dimension) ==
    [self EXCEPT !.index = NewIndexFlatIP(dimension), !.documents = <<>>,
                 !.metadata = <<>>]

\* the store while __init__ runs, before _initialize_index
Unloaded(dimension) ==
    [index |-> NewIndexFlatIP(dimension), documents |-> <<>>, metadata |-> <<>>]

\* an except branch that logs and goes on with what was loaded
LoadFailedKeepsPartial(partial, dimension) == partial

\* the except branch of _initialize_index, entered with the store as the try
\* block left it
LoadFailed(partial, dimension) == CreateNewIndex(partial, dimension)

\* _initialize_index: load the pair of files, or start empty
InitializeIndex(ff, pf, dimension) ==
    IF ff.st # "absent" /\ pf.st # "absent"
    THEN IF ff.st # "ok"
         THEN LoadFailed(Unloaded(dimension), dimension)
         ELSE IF pf.st # "ok"
              THEN LoadFailed([Unloaded(dimension) EXCEPT !.index = ReadIndex(ff)],
                              dimension)
              ELSE [index |-> ReadIndex(ff),
                    documents |-> DictGet(pf, "documents"),
                    metadata |-> DictGet(pf, "metadata")]
    ELSE CreateNewIndex(Unloaded(dimension), dimension)

\* get_stats
GetStats(idx, docs) ==
    [total_documents |-> Len(docs), index_size |-> NTotal(idx), embedding_dimension |-> Dim]

\* ------------------------------------------------------------------------
\* FAISSVectorStore: search
\* ------------------------------------------------------------------------
\* inner product of the query with the vector of id i
Score(idx, q, i) == InnerProduct(q, idx.xb[i + 1])

\* Best with the comparison reversed
BestIsLowest(idx, q, S) == {i \in S : \A j \in S : Score(idx, q, j) >= Score(idx, q, i)}

\* the ids of S whose score no other id of S exceeds
Best(idx, q, S) == {i \in S : \A j \in S : Score(idx, q, j) <= Score(idx, q, i)}

\* IndexFlatIP.search(q, k) for 1 <= k <= ntotal: every list of k hits
\* <<score, id>> in non-increasing score that holds the k highest scores.
\* FAISS promises no order among equal scores, so each order is an outcome.
RECURSIVE RankFrom(_, _, _, _)
RankFrom(idx, q, S, k) ==
    IF k = 0 \/ S = {} THEN {<<>>}
    ELSE UNION {{<<<<Score(idx, q, i), i>>>> \o r : r \in RankFrom(idx, q, S \ {i}, k - 1)}
                : i \in Best(idx, q, S)}

Rankings(idx, q, k) == RankFrom(idx, q, 0..(NTotal(idx) - 1), k)

\* the k passed to index.search
SearchK(k, ntotal) == Min(k, ntotal)

\* the guard of the result loop, off by one
HasDocumentOffByOne(i, docs) == i < Len(docs) - 1

\* the guard of the result loop
HasDocument(i, docs) == i < Len(docs)

\* the result loop raises IndexError: a hit has a document but no metadata
FormatRaises(hits, docs, meta) ==
    \E n \in DOMAIN hits : HasDocument(hits[n][2], docs) /\ hits[n][2] >= Len(meta)

\* the result loop of search over the first n hits (when it does not raise)
RECURSIVE FormatHits(_, _, _, _)
FormatHits(hits, n, docs, meta) ==
    IF n = 0 THEN <<>>
    ELSE LET rest == FormatHits(hits, n - 1, docs, meta)
             i == hits[n][2]
         IN IF HasDocument(i, docs)
            THEN Append(rest, [text |-> docs[i + 1], metadata |-> meta[i + 1],
                               score |-> hits[n][1], index |-> i])
            ELSE rest

\* ------------------------------------------------------------------------
\* Metadata
\* ------------------------------------------------------------------------
UserMeta == [source |-> "user"]

\* [{"source": f"doc_{i}"} for i in range(n)]
DefaultMetadata(n) == [p \in 1..n |-> [source |-> "doc_" \o ToString(p - 1)]]

\* a test `is not None` in place of the truth value
TruthyNotNone(given, list) == given

\* truth value of an Optional[List]: None and [] are both false
Truthy(given, list) == given /\ list # <<>>

\* ------------------------------------------------------------------------
\* State
\* ------------------------------------------------------------------------
VARIABLES
    index,       \* vector_store.index
    documents,   \* vector_store.documents
    metadata,    \* vector_store.metadata
    faissFile,   \* <index_path>.faiss
    pklFile,     \* <index_path>.pkl
    up,          \* the process runs and vector_store is constructed
    fresh,       \* vector_store was constructed and nothing was called on it since
    tasks,       \* per caller, its request coroutine or direct call in progress
    loop         \* the task the event loop thread is executing, 0 when it is free

vars == <<index, documents, metadata, faissFile, pklFile, up, fresh, tasks, loop>>
mem == <<index, documents, metadata>>
disk == <<faissFile, pklFile>>

\* the store object
Store == [index |-> index, documents |-> documents, metadata |-> metadata]

\* what a call finds when it starts
Snapshot ==
    [index |-> index, documents |-> documents, metadata |-> metadata,
     faissFile |-> faissFile, pklFile |-> pklFile]

NoSnapshot ==
    [index |-> NewIndexFlatIP(Dim), documents |-> <<>>, metadata |-> <<>>,
     faissFile |-> NoIndexFile, pklFile |-> NoPickleFile]

Idle ==
    [op |-> "none", pc |-> "idle", status |-> "", pre |-> NoSnapshot,
     documents |-> <<>>, embeddings |-> <<>>, metaGiven |-> FALSE, meta |-> <<>>,
     nometa |-> FALSE, array |-> <<>>,
     query |-> <<>>, k |-> 0, hits |-> <<>>, results |-> <<>>,
     context |-> <<>>, srGiven |-> FALSE, sr |-> <<>>, sources |-> <<>>]

\* handlers that give the thread away after every step (plain `def` handlers
\* run by a thread pool)
SuspensionPointsEveryStep ==
    {"await_generate", "index_add", "extend_documents",
     "extend_metadata", "write_index", "write_pickle", "index_search", "format", "done"}

\* the places where a handler hands the event loop back before it returns:
\* `await llm_client.generate(prompt)` is the only await of the three handlers
SuspensionPoints == {"await_generate"}

Suspended(pc) == pc \in SuspensionPoints \cup {"idle"}

\* task t may take a step: it holds the loop, or the loop is free
CanRun(t) == up /\ (loop = t \/ loop = 0)

\* task t becomes r; it keeps the loop unless r is suspended
Step(t, r) ==
    /\ tasks' = [tasks EXCEPT ![t] = r]
    /\ loop' = IF Suspended(r.pc) THEN 0 ELSE t

Init ==
    /\ faissFile = NoIndexFile
    /\ pklFile = NoPickleFile
    /\ index = InitializeIndex(faissFile, pklFile, Dim).index
    /\ documents = InitializeIndex(faissFile, pklFile, Dim).documents
    /\ metadata = InitializeIndex(faissFile, pklFile, Dim).metadata
    /\ up = TRUE
    /\ fresh = TRUE
    /\ tasks = [t \in TaskIds |-> Idle]
    /\ loop = 0

\* ------------------------------------------------------------------------
\* Requests and calls
\* ------------------------------------------------------------------------
\* the caller has its response or exception
Return(t) ==
    /\ tasks[t].pc = "done"
    /\ CanRun(t)
    /\ Step(t, Idle)
    /\ UNCHANGED <<mem, disk, up, fresh>>

Batches == SeqsUpTo(Texts, MaxBatch)

\* metadata arguments: None, or a list of 0..MaxBatch entries
MetadataArgs ==
    {[given |-> FALSE, items |-> <<>>]} \cup
    {[given |-> TRUE, items |-> [p \in 1..n |-> UserMeta]] : n \in 0..MaxBatch}

\* embeddings of a direct call: one per text, one missing, or one too many
EmbeddingArgs(texts) ==
    {EmbedTexts(texts), Append(EmbedTexts(texts), EmbedOne("A"))} \cup
    (IF texts = <<>> THEN {} ELSE {Tail(EmbedTexts(texts))})

Room(n) == NTotal(index) + n <= MaxDocs /\ Len(documents) + n <= MaxDocs

\* add_documents up to the float32 array: the call r after the two length
\* checks and the normalisation of every embedding
Validated(r) ==
    IF Len(r.documents) # Len(r.embeddings)
    THEN [r EXCEPT !.pc = "done", !.status = "ValueError"]
    ELSE IF Truthy(r.metaGiven, r.meta) /\ Len(r.meta) # Len(r.documents)
         THEN [r EXCEPT !.pc = "done", !.status = "ValueError"]
         ELSE [r EXCEPT !.pc = "index_add",
                        !.array = [p \in 1..Len(r.embeddings) |->
                                      Normalize(r.embeddings[p])]]

\* POST /embed up to index.add in add_documents
EmbedDocuments(t) ==
    /\ tasks[t].pc = "idle"
    /\ CanRun(t)
    /\ \E texts \in Batches, m \in MetadataArgs :
          /\ Room(Len(texts))
          /\ Step(t, Validated([tasks[t] EXCEPT
                        !.op = "embed", !.pre = Snapshot,
                        !.documents = texts,
                        !.embeddings = EmbedTexts(texts),
                        !.metaGiven = TRUE,
                        !.meta = IF Truthy(m.given, m.items) THEN m.items
                                 ELSE DefaultMetadata(Len(texts)),
                        !.nometa = ~m.given]))
    /\ fresh' = FALSE
    /\ UNCHANGED <<mem, disk, up>>

\* a direct call add_documents(documents, embeddings, metadata), up to index.add
AddDocuments(t) ==
    /\ tasks[t].pc = "idle"
    /\ CanRun(t)
    /\ \E texts \in Batches, m \in MetadataArgs :
          \E embs \in EmbeddingArgs(texts) :
             /\ Room(Len(texts))
             /\ Step(t, Validated([tasks[t] EXCEPT
                           !.op = "add", !.pre = Snapshot,
                           !.documents = texts,
                           !.embeddings = embs,
                           !.metaGiven = m.given,
                           !.meta = m.items,
                           !.nometa = ~m.given]))
    /\ fresh' = FALSE
    /\ UNCHANGED <<mem, disk, up>>

\* index.add(x): x must be an n x d array with d the index's dimension
IndexAddAccepts(idx, x) == x # <<>> /\ \A p \in DOMAIN x : Len(x[p]) = idx.d

\* index.add that loses the last row of x
IndexAddDropsLast(idx, x) == [idx EXCEPT !.xb = @ \o SubSeq(x, 1, Len(x) - 1)]

\* index.add that puts the rows of x in front of the stored vectors
IndexAddInFront(idx, x) == [idx EXCEPT !.xb = x \o @]

\* the index after index.add(x)
IndexAdd(idx, x) == [idx EXCEPT !.xb = @ \o x]

\* add_documents: self.index.add(embeddings_array)
AddToIndex(t) ==
    /\ tasks[t].pc = "index_add"
    /\ CanRun(t)
    /\ LET r == tasks[t]
       IN IF IndexAddAccepts(index, r.array)
          THEN /\ index' = IndexAdd(index, r.array)
               /\ Step(t, [r EXCEPT !.pc = "extend_documents"])
          ELSE /\ index' = index
               /\ Step(t, [r EXCEPT !.pc = "done", !.status = "FaissError"])
    /\ UNCHANGED <<documents, metadata, disk, up, fresh>>

\* add_documents: self.documents.extend(documents)
ExtendDocuments(t) ==
    /\ tasks[t].pc = "extend_documents"
    /\ CanRun(t)
    /\ documents' = documents \o tasks[t].documents
    /\ Step(t, [tasks[t] EXCEPT !.pc = "extend_metadata"])
    /\ UNCHANGED <<index, metadata, disk, up, fresh>>

\* add_documents: self.metadata.extend(metadata or the default entries)
ExtendMetadata(t) ==
    /\ tasks[t].pc = "extend_metadata"
    /\ CanRun(t)
    /\ LET r == tasks[t]
       IN metadata' = metadata \o (IF Truthy(r.metaGiven, r.meta) THEN r.meta
                                   ELSE DefaultMetadata(Len(r.documents)))
    /\ Step(t, [tasks[t] EXCEPT !.pc = "write_index"])
    /\ UNCHANGED <<index, documents, disk, up, fresh>>

\* _save_index: faiss.write_index(self.index, <index_path>.faiss)
WriteIndexFile(t) ==
    /\ tasks[t].pc = "write_index"
    /\ CanRun(t)
    /\ faissFile' = WriteIndex(index)
    /\ Step(t, [tasks[t] EXCEPT !.pc = "write_pickle"])
    /\ UNCHANGED <<mem, pklFile, up, fresh>>

\* _save_index: pickle.dump of documents and metadata; the call returns
WritePickleFile(t) ==
    /\ tasks[t].pc = "write_pickle"
    /\ CanRun(t)
    /\ pklFile' = PickleDump(documents, metadata)
    /\ Step(t, [tasks[t] EXCEPT !.pc = "done", !.status = "ok"])
    /\ UNCHANGED <<mem, faissFile, up, fresh>>

\* ------------------------------------------------------------------------
\* clear
\* ------------------------------------------------------------------------
\* clear(): _create_new_index()
Clear(t) ==
    /\ tasks[t].pc = "idle"
    /\ CanRun(t)
    /\ index' = CreateNewIndex(Store, Dim).index
    /\ documents' = CreateNewIndex(Store, Dim).documents
    /\ metadata' = CreateNewIndex(Store, Dim).metadata
    /\ Step(t, [tasks[t] EXCEPT !.op = "clear", !.pc = "write_index", !.pre = Snapshot])
    /\ fresh' = FALSE
    /\ UNCHANGED <<disk, up>>

\* ------------------------------------------------------------------------
\* search
\* ------------------------------------------------------------------------
Queries == {EmbedOne(x) : x \in Texts}

\* POST /search (or a direct call) up to the normalised query of search()
SearchDocuments(t) ==
    /\ tasks[t].pc = "idle"
    /\ CanRun(t)
    /\ \E q \in Queries, k \in 1..MaxK :
          IF NTotal(index) = 0
          THEN Step(t, [tasks[t] EXCEPT !.op = "search", !.pc = "done", !.status = "ok",
                                         !.pre = Snapshot,
                                         !.query = q, !.k = k, !.results = <<>>])
          ELSE Step(t, [tasks[t] EXCEPT !.op = "search", !.pc = "index_search",
                                         !.pre = Snapshot,
                                         !.query = Normalize(q), !.k = k])
    /\ fresh' = FALSE
    /\ UNCHANGED <<mem, disk, up>>

\* search: self.index.search(query_array, min(k, ntotal))
IndexSearch(t) ==
    /\ tasks[t].pc = "index_search"
    /\ CanRun(t)
    /\ LET r == tasks[t]
       IN IF Len(r.query) # index.d
          THEN Step(t, [r EXCEPT !.pc = "done", !.status = "FaissError"])
          ELSE \E h \in Rankings(index, r.query, SearchK(r.k, NTotal(index))) :
                  Step(t, [r EXCEPT !.pc = "format", !.hits = h])
    /\ UNCHANGED <<mem, disk, up, fresh>>

\* search: the result loop and the return
FormatResults(t) ==
    /\ tasks[t].pc = "format"
    /\ CanRun(t)
    /\ LET r == tasks[t]
       IN IF FormatRaises(r.hits, documents, metadata)
          THEN Step(t, [r EXCEPT !.pc = "done", !.status = "IndexError"])
          ELSE Step(t, [r EXCEPT !.pc = "done", !.status = "ok",
                                 !.results = FormatHits(r.hits, Len(r.hits),
                                                        documents, metadata)])
    /\ UNCHANGED <<mem, disk, up, fresh>>

\* ------------------------------------------------------------------------
\* Process lifecycle
\* ------------------------------------------------------------------------
Quiet == \A t \in TaskIds : tasks[t].pc = "idle"

\* the process stops between requests; its memory is gone
Shutdown ==
    /\ up /\ Quiet /\ loop = 0
    /\ up' = FALSE
    /\ fresh' = FALSE
    /\ index' = NewIndexFlatIP(Dim)
    /\ documents' = <<>>
    /\ metadata' = <<>>
    /\ UNCHANGED <<disk, tasks, loop>>

\* startup_event: FAISSVectorStore(index_path, dimension)
Startup ==
    /\ ~up
    /\ up' = TRUE
    /\ fresh' = TRUE
    /\ index' = InitializeIndex(faissFile, pklFile, Dim).index
    /\ documents' = InitializeIndex(faissFile, pklFile, Dim).documents
    /\ metadata' = InitializeIndex(faissFile, pklFile, Dim).metadata
    /\ UNCHANGED <<disk, tasks, loop>>

\* ------------------------------------------------------------------------
\* Specification of the store and its callers
\* ------------------------------------------------------------------------
Next ==
    \/ \E t \in TaskIds : EmbedDocuments(t)
    \/ \E t \in TaskIds : AddDocuments(t)
    \/ \E t \in TaskIds : AddToIndex(t)
    \/ \E t \in TaskIds : ExtendDocuments(t)
    \/ \E t \in TaskIds : ExtendMetadata(t)
    \/ \E t \in TaskIds : WriteIndexFile(t)
    \/ \E t \in TaskIds : WritePickleFile(t)
    \/ \E t \in TaskIds : Clear(t)
    \/ \E t \in TaskIds : SearchDocuments(t)
    \/ \E t \in TaskIds : IndexSearch(t)
    \/ \E t \in TaskIds : FormatResults(t)
    \/ \E t \in TaskIds : Return(t)
    \/ Shutdown
    \/ Startup

Spec == Init /\ [][Next]_vars

TypeOK ==
    /\ up \in BOOLEAN /\ fresh \in BOOLEAN
    /\ loop \in 0..NTasks
    /\ \A t \in TaskIds : tasks[t].op \in {"none", "embed", "add", "search", "clear", "answer"}

\* ------------------------------------------------------------------------
\* Specification of construction over whatever files are found
\* ------------------------------------------------------------------------
StoredVectors == {Normalize(EmbedOne(x)) : x \in Texts}

IndexFiles ==
    {NoIndexFile, CorruptIndexFile}
    \cup {WriteIndex([d |-> Dim, xb |-> xb]) : xb \in SeqsUpTo(StoredVectors, MaxFileDocs)}
    \cup {WriteIndex([d |-> Dim + 1,
                      xb |-> <<[i \in 1..(Dim + 1) |-> IF i = 1 THEN Scale ELSE 0]>>])}

PickleFiles ==
    {NoPickleFile, CorruptPickleFile}
    \cup {PickleDump(docs, DefaultMetadata(n)) :
             docs \in SeqsUpTo(Texts, MaxFileDocs), n \in 0..MaxFileDocs}
    \cup {[st |-> "ok", keys |-> <<"documents">>, vals |-> <<docs>>] :
             docs \in SeqsUpTo(Texts, 1)}

InitLoad ==
    /\ faissFile \in IndexFiles
    /\ pklFile \in PickleFiles
    /\ index = InitializeIndex(faissFile, pklFile, Dim).index
    /\ documents = InitializeIndex(faissFile, pklFile, Dim).documents
    /\ metadata = InitializeIndex(faissFile, pklFile, Dim).metadata
    /\ up = TRUE
    /\ fresh = TRUE
    /\ tasks = [t \in TaskIds |-> Idle]
    /\ loop = 0

NextLoad ==
    \/ \E t \in TaskIds : SearchDocuments(t)
    \/ \E t \in TaskIds : IndexSearch(t)
    \/ \E t \in TaskIds : FormatResults(t)
    \/ \E t \in TaskIds : Return(t)
    \/ Shutdown
    \/ Startup

SpecLoad == InitLoad /\ [][NextLoad]_vars

\* ------------------------------------------------------------------------
\* POST /answer
\* ------------------------------------------------------------------------
\* search results as a client may send them
ResultDicts ==
    {[text |-> "A", metadata |-> [source |-> "user"], index |-> 0],
     [text |-> "B", metadata |-> [tag |-> "x"], index |-> 1],
     [text |-> "B", index |-> 2],
     [text |-> "A", metadata |-> [tag |-> "x"]]}

SearchResultsArgs ==
    {[given |-> FALSE, items |-> <<>>]} \cup
    {[given |-> TRUE, items |-> sr] : sr \in SeqsUpTo(ResultDicts, MaxCtx)}

Contexts == SeqsUpTo({"A"}, MaxCtx)

\* metadata.get('source', f"document_{result.get('index', 'unknown')}")
\* with metadata = result.get('metadata', {})
ResultSource(r) ==
    IF "metadata" \in DOMAIN r /\ "source" \in DOMAIN r.metadata
    THEN r.metadata.source
    ELSE "document_" \o (IF "index" \in DOMAIN r THEN ToString(r.index) ELSE "unknown")

\* [f"source_{i}" for i in range(len(context))]
ContextSources(context) == [p \in 1..Len(context) |-> "source_" \o ToString(p - 1)]

\* the sources of generate_answer
Sources(srGiven, sr, context) ==
    IF Truthy(srGiven, sr)
    THEN [p \in 1..Len(sr) |-> ResultSource(sr[p])]
    ELSE ContextSources(context)

\* generate_answer up to `await llm_client.generate(prompt)`
GenerateAnswer(t) ==
    /\ tasks[t].pc = "idle"
    /\ CanRun(t)
    /\ \E c \in Contexts :
          Step(t, [tasks[t] EXCEPT !.op = "answer", !.pc = "await_generate",
                                   !.context = c])
    /\ fresh' = FALSE
    /\ UNCHANGED <<mem, disk, up>>

\* the generation returns: request.search_results is read, the sources are
\* derived and the response is built
AnswerGenerated(t) ==
    /\ tasks[t].pc = "await_generate"
    /\ CanRun(t)
    /\ \E s \in SearchResultsArgs :
          Step(t, [tasks[t] EXCEPT
                     !.pc = "done", !.status = "ok",
                     !.srGiven = s.given, !.sr = s.items,
                     !.sources = Sources(s.given, s.items, tasks[t].context)])
    /\ UNCHANGED <<mem, disk, up, fresh>>

\* the generation raises: the handler answers 500, without sources
GenerationFails(t) ==
    /\ tasks[t].pc = "await_generate"
    /\ CanRun(t)
    /\ Step(t, [tasks[t] EXCEPT !.pc = "done", !.status = "GenerationError"])
    /\ UNCHANGED <<mem, disk, up, fresh>>

NextAnswer ==
    \/ \E t \in TaskIds : GenerateAnswer(t)
    \/ \E t \in TaskIds : AnswerGenerated(t)
    \/ \E t \in TaskIds : GenerationFails(t)
    \/ \E t \in TaskIds : Return(t)

SpecAnswer == Init /\ [][NextAnswer]_vars

\* ------------------------------------------------------------------------
\* Specification of the store given arbitrary vectors
\* ------------------------------------------------------------------------
MaxVecDocs == 2   \* a call with vectors is only started while it fits this count

\* search(query_embedding, k=5)
DefaultK == 5

Vec(a, b) == [i \in 1..Dim |-> IF i = 1 THEN a ELSE IF i = 2 THEN b ELSE 0]

\* embeddings a direct caller may pass: the zero vector, a unit vector, and
\* vectors of other lengths, with negative components, of irrational norm
Vectors == {Vec(0, 0), Vec(1, 0), Vec(3, 4), Vec(-3, 4), Vec(1, 1), Vec(0, -2)}

\* a direct call add_documents(documents, embeddings) without metadata, up to
\* index.add
AddVectors(t) ==
    /\ tasks[t].pc = "idle"
    /\ CanRun(t)
    /\ \E vs \in SeqsUpTo(Vectors, MaxBatch) :
          /\ NTotal(index) + Len(vs) <= MaxVecDocs
          /\ Step(t, Validated([tasks[t] EXCEPT
                        !.op = "add", !.pre = Snapshot,
                        !.documents = [p \in 1..Len(vs) |-> "A"],
                        !.embeddings = vs,
                        !.metaGiven = FALSE,
                        !.meta = <<>>,
                        !.nometa = TRUE]))
    /\ fresh' = FALSE
    /\ UNCHANGED <<mem, disk, up>>

\* a direct call search(query_embedding) with the default k, up to the
\* normalised query; embeddings keeps the query_embedding as it was given
SearchVector(t) ==
    /\ tasks[t].pc = "idle"
    /\ CanRun(t)
    /\ \E q \in Vectors :
          IF NTotal(index) = 0
          THEN Step(t, [tasks[t] EXCEPT !.op = "search", !.pc = "done", !.status = "ok",
                                         !.pre = Snapshot, !.embeddings = <<q>>,
                                         !.query = q, !.k = DefaultK, !.results = <<>>])
          ELSE Step(t, [tasks[t] EXCEPT !.op = "search", !.pc = "index_search",
                                         !.pre = Snapshot, !.embeddings = <<q>>,
                                         !.query = Normalize(q), !.k = DefaultK])
    /\ fresh' = FALSE
    /\ UNCHANGED <<mem, disk, up>>

NextNorm ==
    \/ \E t \in TaskIds : AddVectors(t)
    \/ \E t \in TaskIds : AddToIndex(t)
    \/ \E t \in TaskIds : ExtendDocuments(t)
    \/ \E t \in TaskIds : ExtendMetadata(t)
    \/ \E t \in TaskIds : WriteIndexFile(t)
    \/ \E t \in TaskIds : WritePickleFile(t)
    \/ \E t \in TaskIds : SearchVector(t)
    \/ \E t \in TaskIds : IndexSearch(t)
    \/ \E t \in TaskIds : FormatResults(t)
    \/ \E t \in TaskIds : Return(t)

SpecNorm == Init /\ [][NextNorm]_vars

\* ------------------------------------------------------------------------
\* Specification with faults: the process may die at any statement, and a
\* write of _save_index may fail
\* ------------------------------------------------------------------------
\* the process is gone: its memory and its calls with it
Dies ==
    /\ up' = FALSE
    /\ fresh' = FALSE
    /\ index' = NewIndexFlatIP(Dim)
    /\ documents' = <<>>
    /\ metadata' = <<>>
    /\ tasks' = [t \in TaskIds |-> Idle]
    /\ loop' = 0

\* the process dies between two statements: the files stay as they are
Crash ==
    /\ up
    /\ Dies
    /\ UNCHANGED disk

\* the process dies inside faiss.write_index: the file was opened for writing
\* and holds a part of the index
CrashWritingIndex(t) ==
    /\ tasks[t].pc = "write_index"
    /\ CanRun(t)
    /\ faissFile' = CorruptIndexFile
    /\ Dies
    /\ UNCHANGED pklFile

\* the process dies inside pickle.dump: the file was opened with 'wb' and
\* holds a part of the pickle
CrashWritingPickle(t) ==
    /\ tasks[t].pc = "write_pickle"
    /\ CanRun(t)
    /\ pklFile' = CorruptPickleFile
    /\ Dies
    /\ UNCHANGED faissFile

\* faiss.write_index raises (the file could not be opened, or the write
\* stopped half way); _save_index logs and re-raises
WriteIndexFails(t) ==
    /\ tasks[t].pc = "write_index"
    /\ CanRun(t)
    /\ faissFile' \in {faissFile, CorruptIndexFile}
    /\ Step(t, [tasks[t] EXCEPT !.pc = "done", !.status = "SaveError"])
    /\ UNCHANGED <<mem, pklFile, up, fresh>>

\* open or pickle.dump raises; _save_index logs and re-raises
WritePickleFails(t) ==
    /\ tasks[t].pc = "write_pickle"
    /\ CanRun(t)
    /\ pklFile' \in {pklFile, CorruptPickleFile}
    /\ Step(t, [tasks[t] EXCEPT !.pc = "done", !.status = "SaveError"])
    /\ UNCHANGED <<mem, faissFile, up, fresh>>

\* POST /embed of up to MaxBatch copies of one text, without metadata, up to
\* index.add in add_documents
EmbedSame(t) ==
    /\ tasks[t].pc = "idle"
    /\ CanRun(t)
    /\ \E texts \in SeqsUpTo({"A"}, MaxBatch) :
          /\ Room(Len(texts))
          /\ Step(t, Validated([tasks[t] EXCEPT
                        !.op = "embed", !.pre = Snapshot,
                        !.documents = texts,
                        !.embeddings = EmbedTexts(texts),
                        !.metaGiven = TRUE,
                        !.meta = DefaultMetadata(Len(texts)),
                        !.nometa = TRUE]))
    /\ fresh' = FALSE
    /\ UNCHANGED <<mem, disk, up>>

NextCrash ==
    \/ \E t \in TaskIds : EmbedSame(t)
    \/ \E t \in TaskIds : AddToIndex(t)
    \/ \E t \in TaskIds : ExtendDocuments(t)
    \/ \E t \in TaskIds : ExtendMetadata(t)
    \/ \E t \in TaskIds : WriteIndexFile(t)
    \/ \E t \in TaskIds : WritePickleFile(t)
    \/ \E t \in TaskIds : Clear(t)
    \/ \E t \in TaskIds : Return(t)
    \/ \E t \in TaskIds : CrashWritingIndex(t)
    \/ \E t \in TaskIds : CrashWritingPickle(t)
    \/ \E t \in TaskIds : WriteIndexFails(t)
    \/ \E t \in TaskIds : WritePickleFails(t)
    \/ Crash
    \/ Startup

SpecCrash == Init /\ [][NextCrash]_vars

\* ------------------------------------------------------------------------
\* Properties
\* ------------------------------------------------------------------------
Ingests == {"embed", "add"}
Mutators == {"embed", "add", "clear"}

\* task t has returned from a call of one of ops
Done(t, ops) == tasks[t].pc = "done" /\ tasks[t].op \in ops

\* task t is between the first and the last statement of its call
InCall(t) == tasks[t].pc # "idle"

\* some add_documents or clear has begun to mutate and has not returned
MidMutation ==
    \E t \in TaskIds :
        tasks[t].pc \in {"extend_documents", "extend_metadata", "write_index", "write_pickle"}

\* the store a new FAISSVectorStore on the same index_path would hold
Reloaded == InitializeIndex(faissFile, pklFile, Dim)

\* every list of results search may return on a store
SearchOutcomes(st, q, k) ==
    IF NTotal(st.index) = 0 THEN {<<>>}
    ELSE {FormatHits(h, Len(h), st.documents, st.metadata) :
             h \in Rankings(st.index, Normalize(q), SearchK(k, NTotal(st.index)))}

\* C1: between calls, the index, the documents and the metadata have the same
\* number of entries, in memory and in the store reloaded from the files, and
\* get_stats reports total_documents = index_size.
C1_CountInvariant ==
    ~MidMutation =>
        /\ NTotal(Reloaded.index) = Len(Reloaded.documents)
        /\ Len(Reloaded.documents) = Len(Reloaded.metadata)
        /\ up => /\ NTotal(index) = Len(documents)
                 /\ Len(documents) = Len(metadata)
                 /\ GetStats(index, documents).total_documents
                       = GetStats(index, documents).index_size

\* a store rebuilt from the files after ingests, holding two documents or more
C1_Witness ==
    /\ up /\ fresh
    /\ Len(documents) >= 2
    /\ NTotal(index) = Len(documents)

\* C2: an add_documents call given a metadata list (not None) of another length
\* than the texts, or embeddings of another number than the texts, fails with
\* the validation error and leaves the store and the files as it found them.
C2_ValidateThenMutate ==
    \A t \in TaskIds :
        (/\ Done(t, {"add"})
         /\ \/ (tasks[t].metaGiven /\ Len(tasks[t].meta) # Len(tasks[t].documents))
            \/ Len(tasks[t].embeddings) # Len(tasks[t].documents))
        => (tasks[t].status = "ValueError" /\ Snapshot = tasks[t].pre)

\* C3: after an ingest without metadata, each document of the batch carries
\* {"source": "doc_<id>"} with id its global id (prior count + batch position).
C3_DefaultMetadataGlobalId ==
    \A t \in TaskIds :
        (Done(t, Ingests) /\ tasks[t].status = "ok" /\ tasks[t].nometa)
        => \A p \in 1..Len(tasks[t].documents) :
              LET id == Len(tasks[t].pre.documents) + p - 1
              IN metadata[id + 1] = [source |-> "doc_" \o ToString(id)]

\* C4: at most one call runs at a time, and a search finds and keeps a store
\* whose vector count equals its document count, at each of its steps.
C4_AtomicIngest ==
    /\ \A t, u \in TaskIds : (InCall(t) /\ InCall(u)) => t = u
    /\ \A t \in TaskIds :
          (tasks[t].op = "search" /\ InCall(t))
          => /\ NTotal(tasks[t].pre.index) = Len(tasks[t].pre.documents)
             /\ NTotal(index) = Len(documents)

\* an ingest has added its vectors and not yet its documents, and the request
\* of another caller cannot be served before it returns
C4_Witness ==
    \E t, u \in TaskIds :
        /\ tasks[t].op = "embed" /\ tasks[t].pc = "extend_documents"
        /\ NTotal(index) # Len(documents)
        /\ u # t /\ tasks[u].pc = "idle" /\ ~CanRun(u)

\* C5: when add_documents or clear has returned, both files exist and a store
\* loaded from them equals the store in memory, and every search gives the
\* same results on both.
C5_PersistenceRoundTrip ==
    \A t \in TaskIds :
        (Done(t, Mutators) /\ tasks[t].status = "ok")
        => /\ faissFile.st = "ok" /\ pklFile.st = "ok"
           /\ Reloaded = Store
           /\ \A q \in Queries, k \in 1..MaxK :
                 SearchOutcomes(Reloaded, q, k) = SearchOutcomes(Store, q, k)

\* an ingest into a non-empty store has returned, with two vectors or more saved
C5_Witness ==
    \E t \in TaskIds :
        /\ Done(t, Ingests) /\ tasks[t].status = "ok"
        /\ tasks[t].pre.documents # <<>>
        /\ faissFile.ntotal >= 2

C8_Clear ==
    \A t \in TaskIds :
        (Done(t, {"clear"}) /\ tasks[t].status = "ok")
        => /\ NTotal(index) = 0 /\ documents = <<>> /\ metadata = <<>>
           /\ index.d = Dim
           /\ faissFile.st = "ok" /\ faissFile.ntotal = 0 /\ faissFile.d = Dim
           /\ pklFile.st = "ok"
           /\ NTotal(Reloaded.index) = 0
           /\ Reloaded.documents = <<>> /\ Reloaded.metadata = <<>>

\* clear has returned on a store that held documents
C8_Witness ==
    \E t \in TaskIds :
        /\ Done(t, {"clear"}) /\ tasks[t].status = "ok"
        /\ Len(tasks[t].pre.documents) >= 2
        /\ tasks[t].pre.pklFile.st = "ok"

\* C9: a store just constructed over a missing or unreadable file is the
\* empty store of the configured dimension.
C9_LoadFallback ==
    (up /\ fresh /\ (faissFile.st # "ok" \/ pklFile.st # "ok"))
    => /\ index = NewIndexFlatIP(Dim)
       /\ documents = <<>>
       /\ metadata = <<>>

\* a store constructed over a readable index file of two vectors and an
\* unreadable pickle file
C9_Witness ==
    /\ up /\ fresh
    /\ faissFile.st = "ok" /\ faissFile.ntotal = 2
    /\ pklFile.st = "corrupt"
    /\ NTotal(index) = 0

\* the source the response lists for a search result
ExpectedSource(r) ==
    IF "metadata" \in DOMAIN r /\ "source" \in DOMAIN r.metadata THEN r.metadata.source
    ELSE IF "index" \in DOMAIN r THEN "document_" \o ToString(r.index)
    ELSE "document_unknown"

PerResult(t) ==
    /\ Len(tasks[t].sources) = Len(tasks[t].sr)
    /\ \A p \in DOMAIN tasks[t].sr : tasks[t].sources[p] = ExpectedSource(tasks[t].sr[p])

PerContext(t) ==
    /\ Len(tasks[t].sources) = Len(tasks[t].context)
    /\ \A p \in DOMAIN tasks[t].context :
          tasks[t].sources[p] = "source_" \o ToString(p - 1)

\* C10 as claimed: an answer lists one source per search result whenever
\* search_results is given, whatever its length, and one per context entry
\* when it is not given.
C10_SourcesPerGivenResults ==
    \A t \in TaskIds :
        (Done(t, {"answer"}) /\ tasks[t].status = "ok")
        => IF tasks[t].srGiven THEN PerResult(t) ELSE PerContext(t)

\* C10 as amended: one source per search result when search_results is given
\* and not empty; one per context entry when it is absent or the empty list.
C10_SourcesPerNonEmptyResults ==
    \A t \in TaskIds :
        (Done(t, {"answer"}) /\ tasks[t].status = "ok")
        => IF tasks[t].srGiven /\ tasks[t].sr # <<>> THEN PerResult(t) ELSE PerContext(t)

\* an answer to a request with two search results and one context entry
C10_Witness ==
    \E t \in TaskIds :
        /\ Done(t, {"answer"}) /\ tasks[t].status = "ok"
        /\ tasks[t].srGiven /\ Len(tasks[t].sr) = 2 /\ Len(tasks[t].context) = 1
        /\ Len(tasks[t].sources) = 2

Abs(x) == IF x < 0 THEN -x ELSE x

IsZero(v) == \A i \in DOMAIN v : v[i] = 0

\* s has L2 norm 1.0, to one unit of the representation per component
UnitNorm(s) ==
    /\ SumSq(s, Len(s)) >= (Scale - Len(s)) * (Scale - Len(s))
    /\ SumSq(s, Len(s)) <= (Scale + Len(s)) * (Scale + Len(s))

\* s points the way v does: s[i] / s[j] = v[i] / v[j], to the rounding of s
SameDirection(v, s) ==
    /\ Dot(s, v, Len(v)) > 0
    /\ \A i, j \in DOMAIN v : Abs(s[i] * v[j] - s[j] * v[i]) <= Abs(v[i]) + Abs(v[j])

\* s is what the normalisation rule makes of v
NormalizedAs(v, s) ==
    /\ Len(s) = Len(v)
    /\ IF IsZero(v) THEN s = v ELSE UnitNorm(s) /\ SameDirection(v, s)

\* C11: add_documents accepts any vectors of the index's dimension, the zero
\* vector included, and stores under the next ids each vector divided by its
\* L2 norm (the stored norm is 1 within tolerance), or unchanged when it is
\* the zero vector; search normalises its query by the same rule.
C11_Normalization ==
    \A t \in TaskIds :
        /\ (Done(t, {"add"}) /\ tasks[t].documents # <<>>)
           => /\ tasks[t].status = "ok"
              /\ NTotal(index) = NTotal(tasks[t].pre.index) + Len(tasks[t].embeddings)
              /\ \A p \in DOMAIN tasks[t].embeddings :
                    NormalizedAs(tasks[t].embeddings[p],
                                 index.xb[NTotal(tasks[t].pre.index) + p])
        /\ (tasks[t].op = "search" /\ InCall(t) /\ NTotal(index) > 0)
           => NormalizedAs(tasks[t].embeddings[1], tasks[t].query)

\* an ingest of a vector of irrational norm and of the zero vector has
\* returned: the zero vector is stored unchanged under id 1
C11_Witness ==
    \E t \in TaskIds :
        /\ Done(t, {"add"}) /\ tasks[t].status = "ok"
        /\ tasks[t].embeddings = <<Vec(1, 1), Vec(0, 0)>>
        /\ NTotal(index) = 2
        /\ IsZero(index.xb[2])
        /\ ~IsZero(index.xb[1])

\* C12: whatever statement of add_documents or clear the process died at, or
\* whichever write failed, a store constructed afterwards on the same files
\* holds as many vectors as documents as metadata entries.
C12_CrashConsistency ==
    (up /\ fresh)
    => /\ NTotal(index) = Len(documents)
       /\ Len(documents) = Len(metadata)

\* every entry of a is found in b under the same id
IsPrefix(a, b) == Len(a) <= Len(b) /\ \A i \in DOMAIN a : b[i] = a[i]

\* this step is the first of a clear()
ClearStep == \E t \in TaskIds : tasks[t].op # "clear" /\ tasks'[t].op = "clear"

\* a step of the running process other than a clear keeps the vector, the
\* text and the metadata of every id they were assigned to
KeepsEntries ==
    (up /\ up' /\ ~ClearStep)
    => /\ IsPrefix(index.xb, index'.xb)
       /\ IsPrefix(documents, documents')
       /\ IsPrefix(metadata, metadata')

\* a returned add_documents of n documents on a store of count c has put its
\* p-th vector, text and metadata entry under id c + p - 1
AssignedInOrder ==
    \A t \in TaskIds :
        (Done(t, Ingests) /\ tasks[t].status = "ok")
        => LET r == tasks[t]
               c == Len(r.pre.documents)
               n == Len(r.documents)
           IN /\ NTotal(r.pre.index) = c /\ Len(r.pre.metadata) = c
              /\ NTotal(index) = c + n
              /\ Len(documents) = c + n
              /\ Len(metadata) = c + n
              /\ \A p \in 1..n :
                    /\ index.xb[c + p] = Normalize(r.embeddings[p])
                    /\ documents[c + p] = r.documents[p]
                    /\ Truthy(r.metaGiven, r.meta) => metadata[c + p] = r.meta[p]

\* C13: add_documents of n documents on a store of count c assigns them the
\* ids c..c+n-1 in input order, and no step other than a clear changes or
\* removes the vector, text or metadata found under an id.
C13_AppendOnly == []AssignedInOrder /\ [][KeepsEntries]_vars

\* a second ingest, of two documents, has returned on a store that held one:
\* the ids 1 and 2 were assigned after id 0
C13_Witness ==
    \E t \in TaskIds :
        /\ Done(t, Ingests) /\ tasks[t].status = "ok"
        /\ Len(tasks[t].pre.documents) = 1
        /\ Len(tasks[t].documents) = 2
        /\ tasks[t].documents[1] # tasks[t].pre.documents[1]
        /\ Len(documents) = 3

====
